---- MODULE Spec2Model ----
(***************************************************************************)
(* A model of the line editor of elvish: the history walk, the acceptance  *)
(* of a completion candidate, the ReadLine loop with its key dispatch, and *)
(* the layout computed by editorRenderer.render.                           *)
(*                                                                         *)
(* Strings are TLA+ strings of one-byte characters, so Len is the byte     *)
(* length of Go's len and SubSeq(s, b + 1, e) is Go's s[b:e].              *)
(***************************************************************************)
EXTENDS Integers, Sequences, FiniteSets, TLC

VARIABLES
    \* editorState
    line, dot, tips, mode, completion, history,
    \* ReadLine: where the call stands, the key read, the LineRead returned
    pc, k, lr,
    \* the action registry, the terminal and Editor.savedTermios
    leBuiltins, term, savedTermios,
    \* editorRenderer: the terminal height, the pending notifications, the
    \* buffers of the command line and of the mode line as rendered, what the
    \* mode declares, and the buffers render leaves (buf and er.bufNoti)
    height, notifications, cmdline, modeLine, cursorOnModeLine, listing, buf, bufNoti,
    \* Highlighter: the arguments of the form it is given (n.Args) and the
    \* stylings it has added (ed.styling)
    args, styling,
    \* history variables: the last operation observed and the one before it
    ev, ev0

edVars == <<line, dot, tips, mode, completion, history>>
loopVars == <<pc, k, lr, leBuiltins, term, savedTermios>>
renderVars ==
    <<height, notifications, cmdline, modeLine, cursorOnModeLine, listing, buf, bufNoti>>
hlVars == <<args, styling>>
obsVars == <<ev, ev0>>
vars == <<edVars, loopVars, renderVars, hlVars, obsVars>>

\* ------------------------------------------------------------------ bounds

MaxStrLen == 1
MaxItems == 3
MaxLine == 2
MaxCands == 1
MaxHist == 2

Alphabet == {"a", "b"}

RECURSIVE Strs(_)
Strs(n) ==
    IF n = 0 THEN {""}
    ELSE LET S == Strs(n - 1) IN S \cup {s \o c : s \in S, c \in Alphabet}

RECURSIVE SeqsUpTo(_, _)
SeqsUpTo(S, n) ==
    IF n = 0 THEN {<<>>}
    ELSE LET T == SeqsUpTo(S, n - 1) IN T \cup {Append(t, s) : t \in T, s \in S}

\* ------------------------------------------------------------ bufferMode

modeInsert == "modeInsert"
modeCommand == "modeCommand"
modeCompletion == "modeCompletion"
modeNavigation == "modeNavigation"
modeHistory == "modeHistory"

bufferMode == {modeInsert, modeCommand, modeCompletion, modeNavigation, modeHistory}

\* A nil *completion.
nil == [nil |-> TRUE]

NoEvent == [op |-> "none"]

\* An empty buffer, and no rendering under way.
emptyBuf == [cells |-> <<>>, dot |-> [line |-> 0, col |-> 0]]

IdleRender ==
    /\ height = 0
    /\ notifications = <<>>
    /\ cmdline = emptyBuf
    /\ modeLine = nil
    /\ cursorOnModeLine = FALSE
    /\ listing = 0
    /\ buf = emptyBuf
    /\ bufNoti = nil

\* No form being highlighted.
IdleHighlight ==
    /\ args = <<>>
    /\ styling = <<>>

\* ---------------------------------------------------------- historyState

HasPrefix(s, p) == Len(p) <= Len(s) /\ SubSeq(s, 1, Len(p)) = p

\* for i := from; i >= 0; i-- { if HasPrefix(items[i], prefix) {current = i; return true} }
RECURSIVE prevScan(_, _)
prevScan(hs, i) ==
    IF ~(i >= 0) THEN [hs |-> hs, ret |-> FALSE]
    ELSE IF HasPrefix(hs.items[i + 1], hs.prefix)
         THEN [hs |-> [hs EXCEPT !.current = i], ret |-> TRUE]
         ELSE prevScan(hs, i - 1)

\* for i := from; i < len(items); i++ { ... }
RECURSIVE nextScan(_, _)
nextScan(hs, i) ==
    IF ~(i < Len(hs.items)) THEN [hs |-> hs, ret |-> FALSE]
    ELSE IF HasPrefix(hs.items[i + 1], hs.prefix)
         THEN [hs |-> [hs EXCEPT !.current = i], ret |-> TRUE]
         ELSE nextScan(hs, i + 1)

\* A scan that skips the entry right before current.
prevSkipsOne(hs) == prevScan(hs, hs.current - 2)

prev(hs) == prevScan(hs, hs.current - 1)

\* A scan that skips the entry right after current.
nextSkipsOne(hs) == nextScan(hs, hs.current + 2)

next(hs) == nextScan(hs, hs.current + 1)

append(hs, l) == [hs EXCEPT !.items = Append(hs.items, l)]

\* ------------------------------------------- the history walk on its own

IdleEditor ==
    /\ line = ""
    /\ dot = 0
    /\ tips = <<>>
    /\ mode = modeInsert
    /\ completion = nil

\* No ReadLine call under way.
IdleLoop ==
    /\ pc = "idle"
    /\ k = [r |-> "Default", m |-> "0"]
    /\ lr = [Line |-> "", EOF |-> FALSE, Err |-> "nil"]
    /\ leBuiltins = {}
    /\ term = [raw |-> FALSE, autowrap |-> TRUE]
    /\ savedTermios = "nil"

InitHistory ==
    /\ IdleEditor
    /\ \E items \in SeqsUpTo(Strs(MaxStrLen), MaxItems) :
       \E current \in 0 .. Len(items) :
       \E prefix \in Strs(MaxStrLen) :
          history = [items |-> items, current |-> current, saved |-> "", prefix |-> prefix]
    /\ IdleLoop
    /\ IdleRender
    /\ IdleHighlight
    /\ ev = NoEvent
    /\ ev0 = NoEvent

CallPrev ==
    LET r == prev(history) IN
    /\ history' = r.hs
    /\ ev' = [op |-> "prev", ret |-> r.ret, hs |-> history]
    /\ ev0' = ev
    /\ UNCHANGED <<line, dot, tips, mode, completion, loopVars, renderVars, hlVars>>

CallNext ==
    LET r == next(history) IN
    /\ history' = r.hs
    /\ ev' = [op |-> "next", ret |-> r.ret, hs |-> history]
    /\ ev0' = ev
    /\ UNCHANGED <<line, dot, tips, mode, completion, loopVars, renderVars, hlVars>>

CallAppend ==
    /\ Len(history.items) < MaxItems
    /\ \E l \in Strs(MaxStrLen) :
          /\ history' = append(history, l)
          /\ ev' = [op |-> "append", ret |-> TRUE, hs |-> history]
    /\ ev0' = ev
    /\ UNCHANGED <<line, dot, tips, mode, completion, loopVars, renderVars, hlVars>>

NextHistory == CallPrev \/ CallNext \/ CallAppend

SpecHistory == InitHistory /\ [][NextHistory]_vars

\* Indices of hs.items whose entry starts with hs.prefix.
Matching(hs) == {i \in 0 .. Len(hs.items) - 1 : HasPrefix(hs.items[i + 1], hs.prefix)}

SetMax(S) == CHOOSE x \in S : \A y \in S : y <= x
SetMin(S) == CHOOSE x \in S : \A y \in S : x <= y

\* C1: prev() moves current to the greatest matching index below it and
\* returns true, or returns false and leaves current alone when there is
\* none; next() does the same with the least matching index above current;
\* neither changes items or prefix.
C1_PrevNextContract ==
    /\ ev.op = "prev" =>
         LET M == {i \in Matching(ev.hs) : i < ev.hs.current} IN
         /\ M # {} => ev.ret /\ history.current = SetMax(M)
         /\ M = {} => ~ev.ret /\ history.current = ev.hs.current
         /\ history.items = ev.hs.items /\ history.prefix = ev.hs.prefix
    /\ ev.op = "next" =>
         LET M == {i \in Matching(ev.hs) : i > ev.hs.current} IN
         /\ M # {} => ev.ret /\ history.current = SetMin(M)
         /\ M = {} => ~ev.ret /\ history.current = ev.hs.current
         /\ history.items = ev.hs.items /\ history.prefix = ev.hs.prefix

\* A prev() that skipped a non-matching entry to reach a matching one, with
\* a further matching entry left below it.
C1_Witness ==
    /\ ev.op = "prev" /\ ev.ret
    /\ history.current + 1 < ev.hs.current
    /\ \E i \in Matching(history) : i < history.current
    /\ history.prefix # ""

\* C2 as stated: a successful prev() followed by next(), or a successful
\* next() followed by prev(), brings current back to where it started.
C2_InverseAnyStart ==
    /\ (ev0.op = "prev" /\ ev0.ret /\ ev.op = "next") => history.current = ev0.hs.current
    /\ (ev0.op = "next" /\ ev0.ret /\ ev.op = "prev") => history.current = ev0.hs.current

\* The starting current selects an entry that starts with prefix.
OnMatch(hs) == hs.current \in Matching(hs)

\* C2 as amended: the round trip returns to the starting current when the
\* entry at the starting current itself starts with prefix.
C2_InverseFromMatch ==
    /\ (ev0.op = "prev" /\ ev0.ret /\ ev.op = "next" /\ OnMatch(ev0.hs)) =>
          ev.ret /\ history.current = ev0.hs.current
    /\ (ev0.op = "next" /\ ev0.ret /\ ev.op = "prev" /\ OnMatch(ev0.hs)) =>
          ev.ret /\ history.current = ev0.hs.current

\* A round trip from a matching entry over a non-matching one in between.
C2_Witness ==
    /\ ev0.op = "prev" /\ ev0.ret /\ ev.op = "next" /\ OnMatch(ev0.hs)
    /\ ev.hs.current + 1 < ev0.hs.current
    /\ history.current = ev0.hs.current

\* ------------------------------------------------------ acceptCompletion

\* The editorState as one value, and its assignment.
Ed ==
    [line |-> line, dot |-> dot, tips |-> tips, mode |-> mode,
     completion |-> completion, history |-> history]

SetEd(e) ==
    /\ line' = e.line
    /\ dot' = e.dot
    /\ tips' = e.tips
    /\ mode' = e.mode
    /\ completion' = e.completion
    /\ history' = e.history

Selected(c) == 0 <= c.current /\ c.current < Len(c.candidates)

\* The dot moved by the length of the accepted text alone.
acceptCompletionAddsLen(ed) ==
    LET c == ed.completion IN
    IF Selected(c)
    THEN LET accepted == c.candidates[c.current + 1].text IN
         [ed EXCEPT !.line = SubSeq(ed.line, 1, c.start) \o accepted
                             \o SubSeq(ed.line, c.end + 1, Len(ed.line)),
                    !.dot = ed.dot + Len(accepted),
                    !.completion = nil,
                    !.mode = modeInsert]
    ELSE [ed EXCEPT !.completion = nil, !.mode = modeInsert]

acceptCompletion(ed) ==
    LET c == ed.completion IN
    IF Selected(c)
    THEN LET accepted == c.candidates[c.current + 1].text IN
         [ed EXCEPT !.line = SubSeq(ed.line, 1, c.start) \o accepted
                             \o SubSeq(ed.line, c.end + 1, Len(ed.line)),
                    !.dot = ed.dot + Len(accepted) - (c.end - c.start),
                    !.completion = nil,
                    !.mode = modeInsert]
    ELSE [ed EXCEPT !.completion = nil, !.mode = modeInsert]

\* Completion states over a line: a range of the line and some candidates,
\* with any value of current, in range or not.
Completions(l) ==
    {[candidates |-> cs, current |-> cur, start |-> b, end |-> e] :
        cs \in SeqsUpTo([text : Strs(MaxStrLen)], MaxCands),
        cur \in -1 .. MaxCands,
        b \in 0 .. Len(l), e \in 0 .. Len(l)}

InitAccept ==
    /\ line \in Strs(MaxLine)
    /\ dot \in 0 .. Len(line)
    /\ tips = <<>>
    /\ mode = modeCompletion
    /\ completion \in {c \in Completions(line) : c.start <= c.end}
    /\ history = [items |-> <<>>, current |-> 0, saved |-> "", prefix |-> ""]
    /\ IdleLoop
    /\ IdleRender
    /\ IdleHighlight
    /\ ev = NoEvent
    /\ ev0 = NoEvent

AcceptCompletion ==
    /\ completion # nil
    /\ SetEd(acceptCompletion(Ed))
    /\ ev' = [op |-> "acceptCompletion", ed |-> Ed]
    /\ ev0' = ev
    /\ UNCHANGED <<loopVars, renderVars, hlVars>>

NextAccept == AcceptCompletion

SpecAccept == InitAccept /\ [][NextAccept]_vars

\* C3: accepting the selected candidate t over [b, e) gives
\* line[:b] + t + line[e:] and, for a dot at or after e, the dot moved by
\* len(t) - (e - b); with no candidate selected line and dot stay; either
\* way the editor is in insert mode and the completion state is gone.
C3_AcceptCompletion ==
    ev.op = "acceptCompletion" =>
        LET c == ev.ed.completion
            l == ev.ed.line
        IN
        /\ Selected(c) =>
              LET t == c.candidates[c.current + 1].text IN
              /\ line = SubSeq(l, 1, c.start) \o t \o SubSeq(l, c.end + 1, Len(l))
              /\ ev.ed.dot >= c.end => dot = ev.ed.dot + Len(t) - (c.end - c.start)
        /\ ~Selected(c) => line = l /\ dot = ev.ed.dot
        /\ mode = modeInsert
        /\ completion = nil

\* A candidate accepted over a non-empty range in the middle of the line,
\* with the dot at the end of the line.
C3_Witness ==
    /\ ev.op = "acceptCompletion"
    /\ Selected(ev.ed.completion)
    /\ ev.ed.completion.start < ev.ed.completion.end
    /\ ev.ed.completion.end < Len(ev.ed.line)
    /\ ev.ed.dot = Len(ev.ed.line)
    /\ ev.ed.completion.candidates[1].text # ""
    /\ dot = Len(line)

\* ------------------------------------------------------------------- keys

NoMod == "0"
Ctrl == "Ctrl"
Alt == "Alt"

Key(r, m) == [r |-> r, m |-> m]

\* The sentinel for any key a keymap does not bind.
DefaultBinding == Key("Default", NoMod)

keyBindings ==
    (modeCommand :>
        (Key("i", NoMod) :> "start-insert" @@
         Key("h", NoMod) :> "move-dot-left" @@
         Key("l", NoMod) :> "move-dot-right" @@
         Key("D", NoMod) :> "kill-line-right" @@
         DefaultBinding :> "default-command")) @@
    (modeInsert :>
        (Key("[", Ctrl) :> "start-command" @@
         Key("U", Ctrl) :> "kill-line-left" @@
         Key("K", Ctrl) :> "kill-line-right" @@
         Key("Backspace", NoMod) :> "kill-rune-left" @@
         Key("Delete", NoMod) :> "kill-rune-right" @@
         Key("Left", NoMod) :> "move-dot-left" @@
         Key("Right", NoMod) :> "move-dot-right" @@
         Key("Up", NoMod) :> "move-dot-up" @@
         Key("Down", NoMod) :> "move-dot-down" @@
         Key("Enter", Alt) :> "insert-key" @@
         Key("Enter", NoMod) :> "return-line" @@
         Key("D", Ctrl) :> "return-eof" @@
         Key("Tab", NoMod) :> "start-completion" @@
         Key("PageUp", NoMod) :> "start-history" @@
         Key("N", Ctrl) :> "start-navigation" @@
         DefaultBinding :> "default-insert")) @@
    (modeCompletion :>
        (Key("[", Ctrl) :> "cancel-completion" @@
         Key("Up", NoMod) :> "select-cand-up" @@
         Key("Down", NoMod) :> "select-cand-down" @@
         Key("Left", NoMod) :> "select-cand-left" @@
         Key("Right", NoMod) :> "select-cand-right" @@
         Key("Tab", NoMod) :> "cycle-cand-right" @@
         DefaultBinding :> "default-completion")) @@
    (modeNavigation :>
        (Key("Up", NoMod) :> "select-nav-up" @@
         Key("Down", NoMod) :> "select-nav-down" @@
         Key("Left", NoMod) :> "ascend-nav" @@
         Key("Right", NoMod) :> "descend-nav" @@
         DefaultBinding :> "default-navigation")) @@
    (modeHistory :>
        (Key("[", Ctrl) :> "cancel-history" @@
         Key("PageUp", NoMod) :> "select-history-prev" @@
         Key("PageDown", NoMod) :> "select-history-next" @@
         DefaultBinding :> "default-history"))

\* Every key some keymap binds, a key no keymap binds, and the sentinel.
Keys ==
    UNION {DOMAIN keyBindings[m] : m \in DOMAIN keyBindings} \cup {Key("a", NoMod)}

\* Every action name some keymap refers to.
BoundNames ==
    UNION {{keyBindings[m][kk] : kk \in DOMAIN keyBindings[m]} : m \in DOMAIN keyBindings}

\* init() passing only the names bound to an exact key.
bindingsResolveExactOnly(reg) ==
    \A m \in DOMAIN keyBindings :
        \A kk \in DOMAIN keyBindings[m] \ {DefaultBinding} : keyBindings[m][kk] \in reg

\* init(): no name of any keymap is missing from the registry.
bindingsResolve(reg) ==
    \A m \in DOMAIN keyBindings :
        \A kk \in DOMAIN keyBindings[m] : keyBindings[m][kk] \in reg

\* name, bound := keyBinding[k]; if !bound { name = keyBinding[DefaultBinding] }
lookupName(keyBinding, key) ==
    IF key \in DOMAIN keyBinding THEN keyBinding[key] ELSE keyBinding[DefaultBinding]

\* ------------------------------------------------------------- LineRead

NoErr == "nil"

LineRead(l, eof, err) == [Line |-> l, EOF |-> eof, Err |-> err]

\* ------------------------------------------------ the registered actions

Ret(a, m, r) == [action |-> a, newMode |-> m, readLineReturn |-> r]

nilRet == Ret("nil", modeInsert, LineRead("", FALSE, NoErr))
changeMode(m) == Ret("changeMode", m, LineRead("", FALSE, NoErr))
changeModeAndReprocess(m) == Ret("changeModeAndReprocess", m, LineRead("", FALSE, NoErr))
exitReadLine(r) == Ret("exitReadLine", modeInsert, r)

\* A pushTip that keeps nothing.
pushTipDropsIt(ed, more) == ed

pushTip(ed, more) == [ed EXCEPT !.tips = Append(ed.tips, more)]

acceptHistory(ed) ==
    LET l == ed.history.items[ed.history.current + 1] IN
    [ed EXCEPT !.line = l, !.dot = Len(l)]

\* The text a key inserts.
KeyText(key) == IF key.r = "Enter" THEN "\n" ELSE key.r

Graphic(key) == key.m = NoMod /\ key.r \in {"a", "i", "h", "l", "D"}

insertAtDot(ed, text) ==
    [ed EXCEPT !.line = SubSeq(ed.line, 1, ed.dot) \o text
                        \o SubSeq(ed.line, ed.dot + 1, Len(ed.line)),
               !.dot = ed.dot + Len(text)]

Done(e) == [ed |-> e, ret |-> nilRet]

\* What the completer found: candidates for a range of the line around the dot.
NoEnv == [candidates |-> <<>>, start |-> 0, end |-> 0]

Clamp(x, lo, hi) == IF x < lo THEN lo ELSE IF x > hi THEN hi ELSE x

\* leBuiltins[name](ed, k): the editor afterwards and the action's result.
Builtin(name, ed, key, env) ==
    CASE name = "start-insert" -> [ed |-> ed, ret |-> changeMode(modeInsert)]
      [] name = "start-command" -> [ed |-> ed, ret |-> changeMode(modeCommand)]
      [] name = "start-navigation" -> [ed |-> ed, ret |-> changeMode(modeNavigation)]
      [] name = "move-dot-left" ->
            Done(IF ed.dot > 0 THEN [ed EXCEPT !.dot = ed.dot - 1] ELSE ed)
      [] name = "move-dot-right" ->
            Done(IF ed.dot < Len(ed.line) THEN [ed EXCEPT !.dot = ed.dot + 1] ELSE ed)
      [] name \in {"move-dot-up", "move-dot-down"} -> Done(ed)
      [] name = "kill-line-left" ->
            Done([ed EXCEPT !.line = SubSeq(ed.line, ed.dot + 1, Len(ed.line)), !.dot = 0])
      [] name = "kill-line-right" ->
            Done([ed EXCEPT !.line = SubSeq(ed.line, 1, ed.dot)])
      [] name = "kill-rune-left" ->
            Done(IF ed.dot > 0
                 THEN [ed EXCEPT !.line = SubSeq(ed.line, 1, ed.dot - 1)
                                          \o SubSeq(ed.line, ed.dot + 1, Len(ed.line)),
                                 !.dot = ed.dot - 1]
                 ELSE ed)
      [] name = "kill-rune-right" ->
            Done(IF ed.dot < Len(ed.line)
                 THEN [ed EXCEPT !.line = SubSeq(ed.line, 1, ed.dot)
                                          \o SubSeq(ed.line, ed.dot + 2, Len(ed.line))]
                 ELSE ed)
      [] name = "insert-key" -> Done(insertAtDot(ed, KeyText(key)))
      [] name = "default-insert" ->
            Done(IF Graphic(key) THEN insertAtDot(ed, KeyText(key))
                 ELSE pushTip(ed, "unbound key"))
      [] name = "return-line" ->
            [ed |-> ed, ret |-> exitReadLine(LineRead(ed.line, FALSE, NoErr))]
      [] name = "return-eof" ->
            IF Len(ed.line) = 0
            THEN [ed |-> ed, ret |-> exitReadLine(LineRead("", TRUE, NoErr))]
            ELSE Done(ed)
      [] name = "start-completion" ->
            IF Len(env.candidates) = 0
            THEN Done(pushTip(ed, "no completion candidates"))
            ELSE [ed |-> [ed EXCEPT !.completion =
                            [candidates |-> env.candidates, current |-> -1,
                             start |-> env.start, end |-> env.end]],
                  ret |-> changeMode(modeCompletion)]
      [] name = "cancel-completion" ->
            [ed |-> [ed EXCEPT !.completion = nil], ret |-> changeMode(modeInsert)]
      [] name \in {"select-cand-up", "select-cand-left"} ->
            Done([ed EXCEPT !.completion.current =
                    Clamp(ed.completion.current - 1, 0, Len(ed.completion.candidates) - 1)])
      [] name \in {"select-cand-down", "select-cand-right"} ->
            Done([ed EXCEPT !.completion.current =
                    Clamp(ed.completion.current + 1, 0, Len(ed.completion.candidates) - 1)])
      [] name = "cycle-cand-right" ->
            Done([ed EXCEPT !.completion.current =
                    (ed.completion.current + 1) % Len(ed.completion.candidates)])
      [] name = "default-completion" ->
            [ed |-> acceptCompletion(ed), ret |-> changeModeAndReprocess(modeInsert)]
      [] name \in {"select-nav-up", "select-nav-down", "ascend-nav", "descend-nav"} ->
            Done(ed)
      [] name = "default-navigation" ->
            [ed |-> ed, ret |-> changeModeAndReprocess(modeInsert)]
      [] name = "start-history" ->
            LET hs == [ed.history EXCEPT !.saved = ed.line,
                                         !.prefix = SubSeq(ed.line, 1, ed.dot),
                                         !.current = Len(ed.history.items)]
                r == prev(hs)
            IN IF r.ret
               THEN [ed |-> [ed EXCEPT !.history = r.hs], ret |-> changeMode(modeHistory)]
               ELSE Done(pushTip([ed EXCEPT !.history = r.hs], "no matching history item"))
      [] name = "cancel-history" -> [ed |-> ed, ret |-> changeMode(modeInsert)]
      [] name = "select-history-prev" ->
            Done([ed EXCEPT !.history = prev(ed.history).hs])
      [] name = "select-history-next" ->
            Done([ed EXCEPT !.history = next(ed.history).hs])
      [] name = "default-history" ->
            [ed |-> acceptHistory(ed), ret |-> changeModeAndReprocess(modeInsert)]
      [] name = "default-command" -> Done(pushTip(ed, "unbound key"))

\* The actions that slice the line at the dot, line[:dot] or line[dot:].
SlicesAtDot(name, ed, key) ==
    \/ name \in {"kill-line-left", "kill-line-right", "insert-key", "start-history"}
    \/ name = "default-insert" /\ Graphic(key)
    \/ name = "kill-rune-left" /\ ed.dot > 0
    \/ name = "kill-rune-right" /\ ed.dot < Len(ed.line)

\* The call of an action: a slice outside the line is a run-time panic.
callBuiltin(name, ed, key, env) ==
    IF SlicesAtDot(name, ed, key) /\ ~(0 <= ed.dot /\ ed.dot <= Len(ed.line))
    THEN [ed |-> ed, ret |-> Ret("panic", ed.mode, LineRead("", FALSE, NoErr))]
    ELSE Builtin(name, ed, key, env)

\* --------------------------------------------------------------- ReadLine

\* The lines the loop is driven to: keys whose handling would give another
\* line are not typed.
TypedLines == {"", "a"}

LoopLine(l) == l \in TypedLines

\* What the completer may answer for the line and dot of ed: nothing, or
\* candidates for a range of the line that holds the dot.
Envs(ed) ==
    {NoEnv} \cup
    {[candidates |-> cs, start |-> b, end |-> e] :
        cs \in {<<[text |-> "a"]>>, <<[text |-> ""], [text |-> "a"]>>},
        b \in 0 .. ed.dot, e \in ed.dot .. Len(ed.line)}

\* Registries: complete, or with one name missing.
Registries == {BoundNames} \cup {BoundNames \ {n} : n \in BoundNames}

\* The editor once key has been dispatched, re-dispatches included.
RECURSIVE FinalEd(_, _)
FinalEd(ed, key) ==
    LET r == callBuiltin(lookupName(keyBindings[ed.mode], key), ed, key, NoEnv) IN
    IF r.ret.action = "changeModeAndReprocess"
    THEN FinalEd([r.ed EXCEPT !.mode = r.ret.newMode], key)
    ELSE r.ed

\* The cursor positions a terminal may report.
Positions == {[row |-> r, col |-> c] : r \in {1, 2}, c \in {1, 2}}

\* ed.reader.readCPR() on the reply \e[<row>;<col>R: (row, col).
readCPR(reply) == <<reply.row, reply.col>>

\* SetupTerminal and startReadLine, failing at `outcome` or not at all, with
\* the terminal answering the position query by `reply`.  lackEOL tells
\* whether the indicator was written: x, _, err := readCPR(); if x != 1.
startReadLine(t, saved, outcome, reply) ==
    CASE outcome = "getattr" ->
            [err |-> "can't get terminal attribute", term |-> t, savedTermios |-> saved,
             lackEOL |-> FALSE]
      [] outcome = "setattr" ->
            [err |-> "can't set up terminal attribute", term |-> t, savedTermios |-> saved,
             lackEOL |-> FALSE]
      [] outcome = "flush" ->
            [err |-> "can't flush input",
             term |-> [raw |-> TRUE, autowrap |-> FALSE], savedTermios |-> saved,
             lackEOL |-> FALSE]
      [] outcome = "cpr" ->
            [err |-> "bad cpr",
             term |-> [raw |-> TRUE, autowrap |-> FALSE], savedTermios |-> "saved",
             lackEOL |-> FALSE]
      [] outcome = "ok" ->
            LET x == readCPR(reply)[1] IN
            [err |-> NoErr,
             term |-> [raw |-> TRUE, autowrap |-> FALSE], savedTermios |-> "saved",
             lackEOL |-> x # 1]

\* finishReadLine appending whenever no error was returned, EOF or not.
historyAfterIgnoresEOF(hs, r) ==
    IF r.Err = NoErr THEN append(hs, r.Line) ELSE hs

\* finishReadLine: if lr.EOF == false && lr.Err == nil { ed.history.append(lr.Line) }
historyAfter(hs, r) ==
    IF r.EOF = FALSE /\ r.Err = NoErr THEN append(hs, r.Line) ELSE hs

\* A loop whose continue goes straight to readKey.
afterActionSkipsRefresh(ret) ==
    CASE ret.action \in {"nil", "noAction", "changeMode"} -> "readKey"
      [] ret.action = "changeModeAndReprocess" -> "lookupKey"
      [] ret.action = "exitReadLine" -> "finish"
      [] ret.action = "panic" -> "slicePanic"

\* A loop that dispatches the key again on a plain changeMode too.
afterActionReprocessesChangeMode(ret) ==
    CASE ret.action \in {"nil", "noAction"} -> "refresh"
      [] ret.action \in {"changeMode", "changeModeAndReprocess"} -> "lookupKey"
      [] ret.action = "exitReadLine" -> "finish"
      [] ret.action = "panic" -> "slicePanic"

\* Where the loop goes on an action's result: continue, goto lookupKey, return.
afterAction(ret) ==
    CASE ret.action \in {"nil", "noAction", "changeMode"} -> "refresh"
      [] ret.action = "changeModeAndReprocess" -> "lookupKey"
      [] ret.action = "exitReadLine" -> "finish"
      [] ret.action = "panic" -> "slicePanic"

\* What the loop keeps of the event before the last: what it was, and whether
\* it was an action asking for the key to be dispatched again.
Brief(e) ==
    [op |-> e.op,
     again |-> e.op = "dispatch" /\ e.ret.action = "changeModeAndReprocess"]

Init ==
    /\ IdleEditor
    /\ history = [items |-> <<>>, current |-> 0, saved |-> "", prefix |-> ""]
    /\ pc = "init"
    /\ k = DefaultBinding
    /\ lr = LineRead("", FALSE, NoErr)
    /\ leBuiltins \in Registries
    /\ term = [raw |-> FALSE, autowrap |-> TRUE]
    /\ savedTermios = "nil"
    /\ IdleRender
    /\ IdleHighlight
    /\ ev = NoEvent
    /\ ev0 = NoEvent

\* func init(): panic on a keymap name the registry lacks.
PackageInit ==
    /\ pc = "init"
    /\ pc' = IF bindingsResolve(leBuiltins) THEN "idle" ELSE "initPanic"
    /\ UNCHANGED <<edVars, k, lr, leBuiltins, term, savedTermios, renderVars, hlVars, obsVars>>

\* ReadLine up to the loop: startReadLine, then the reset of the editor state.
ReadLineStart ==
    /\ pc \in {"idle", "returned"}
    /\ Len(history.items) < MaxHist
    /\ \E outcome \in {"getattr", "setattr", "flush", "cpr", "ok"} :
       \E reply \in (IF outcome = "ok" THEN Positions ELSE {[row |-> 1, col |-> 1]}) :
         LET s == startReadLine(term, savedTermios, outcome, reply) IN
         /\ term' = s.term
         /\ savedTermios' = s.savedTermios
         /\ IF s.err # NoErr
            THEN /\ lr' = LineRead("", FALSE, s.err)
                 /\ pc' = "returned"
                 /\ ev' = [op |-> "startFailed", outcome |-> outcome, lackEOL |-> s.lackEOL]
                 /\ UNCHANGED edVars
            ELSE /\ lr' = LineRead("", FALSE, NoErr)
                 /\ line' = ""
                 /\ mode' = modeInsert
                 /\ tips' = <<>>
                 /\ completion' = nil
                 /\ dot' = 0
                 /\ pc' = "refresh"
                 /\ ev' = [op |-> "reset", cpr |-> reply, lackEOL |-> s.lackEOL]
                 /\ UNCHANGED history
    /\ ev0' = Brief(ev)
    /\ UNCHANGED <<k, leBuiltins, renderVars, hlVars>>

\* The top of the loop: the prompts, refresh, tips = nil.
Refresh ==
    /\ pc = "refresh"
    /\ \E ok \in BOOLEAN :
         IF ok
         THEN /\ tips' = <<>>
              /\ pc' = "readKey"
              /\ lr' = lr
         ELSE /\ lr' = LineRead("", FALSE, "write error")
              /\ pc' = "finish"
              /\ tips' = tips
    /\ ev' = [op |-> "refresh"]
    /\ ev0' = Brief(ev)
    /\ UNCHANGED <<line, dot, mode, completion, history, k, leBuiltins, term, savedTermios, renderVars, hlVars>>

\* k, err := ed.reader.readKey(): a key, or an error that becomes a tip.
ReadKey ==
    /\ pc = "readKey"
    /\ \/ /\ \E key \in Keys :
               /\ LoopLine(FinalEd(Ed, key).line)
               /\ k' = key
          /\ pc' = "lookupKey"
          /\ ev' = [op |-> "readKey"]
          /\ tips' = tips
       \/ /\ tips' = pushTip(Ed, "read error").tips
          /\ pc' = "refresh"
          /\ ev' = [op |-> "readKeyErr"]
          /\ k' = k
    /\ ev0' = Brief(ev)
    /\ UNCHANGED <<line, dot, mode, completion, history, lr, leBuiltins, term, savedTermios, renderVars, hlVars>>

\* lookupKey: find the action of k in the keymap of the mode, call it, and
\* act on what it returns. k lives for one iteration of the loop.
LookupKey ==
    /\ pc = "lookupKey"
    /\ IF mode \notin DOMAIN keyBindings
       THEN /\ SetEd(pushTip(Ed, "No binding for current mode"))
            /\ pc' = "refresh"
            /\ lr' = lr
            /\ ev' = [op |-> "nobinding"]
       ELSE LET name == lookupName(keyBindings[mode], k) IN
            IF name \notin leBuiltins
            THEN /\ pc' = "nilPanic"
                 /\ lr' = lr
                 /\ ev' = [op |-> "dispatch", mode |-> mode, k |-> k, name |-> name,
                           ret |-> nilRet]
                 /\ UNCHANGED edVars
            ELSE \E env \in (IF name = "start-completion" THEN Envs(Ed) ELSE {NoEnv}) :
                   LET r == callBuiltin(name, Ed, k, env) IN
                   /\ SetEd(IF r.ret.action \in {"changeMode", "changeModeAndReprocess"}
                            THEN [r.ed EXCEPT !.mode = r.ret.newMode]
                            ELSE r.ed)
                   /\ pc' = afterAction(r.ret)
                   /\ lr' = IF r.ret.action = "exitReadLine"
                            THEN r.ret.readLineReturn ELSE lr
                   /\ ev' = [op |-> "dispatch", mode |-> mode, k |-> k, name |-> name,
                             ret |-> r.ret]
    /\ k' = IF pc' = "lookupKey" THEN k ELSE DefaultBinding
    /\ ev0' = Brief(ev)
    /\ UNCHANGED <<leBuiltins, term, savedTermios, renderVars, hlVars>>

\* The deferred finishReadLine, and ReadLine's return.
FinishReadLine ==
    /\ pc = "finish"
    /\ history' = historyAfter(history, lr)
    /\ tips' = <<>>
    /\ mode' = modeInsert
    /\ completion' = nil
    /\ dot' = Len(line)
    /\ line' = line
    /\ \E restored \in BOOLEAN :
         /\ term' = [raw |-> ~restored, autowrap |-> TRUE]
         /\ lr' = IF restored THEN lr
                  ELSE LineRead("", FALSE, "can't restore terminal attribute")
    /\ savedTermios' = "nil"
    /\ pc' = "returned"
    /\ ev' = [op |-> "finish", lr |-> lr]
    /\ ev0' = Brief(ev)
    /\ UNCHANGED <<k, leBuiltins, renderVars, hlVars>>

Next == PackageInit \/ ReadLineStart \/ Refresh \/ ReadKey \/ LookupKey \/ FinishReadLine

Spec == Init /\ [][Next]_vars

\* C4: every mode has a keymap with a DefaultBinding entry; the loop calls
\* the action the mode binds to the key, or else the mode's default; and once
\* init() has passed, every name so found is in the registry, so the loop
\* never calls a missing action.
C4_DispatchTotal ==
    /\ \A m \in bufferMode :
          m \in DOMAIN keyBindings /\ DefaultBinding \in DOMAIN keyBindings[m]
    /\ pc \notin {"init", "initPanic"} =>
          \A m \in bufferMode : \A key \in Keys :
              /\ key \in DOMAIN keyBindings[m] =>
                    keyBindings[m][key] \in leBuiltins
              /\ keyBindings[m][DefaultBinding] \in leBuiltins
    /\ pc # "nilPanic"
    /\ ev.op # "nobinding"
    /\ ev.op = "dispatch" =>
          /\ ev.name \in leBuiltins
          /\ ev.k \in DOMAIN keyBindings[ev.mode] => ev.name = keyBindings[ev.mode][ev.k]
          /\ ev.k \notin DOMAIN keyBindings[ev.mode] =>
                ev.name = keyBindings[ev.mode][DefaultBinding]

\* A key that completion mode does not bind went to its default action.
C4_Witness ==
    /\ ev.op = "dispatch"
    /\ ev.mode = modeCompletion
    /\ ev.k \notin DOMAIN keyBindings[modeCompletion]
    /\ ev.name = "default-completion"

NonZero(r) ==
    (IF r.Line # "" THEN 1 ELSE 0) + (IF r.EOF THEN 1 ELSE 0)
        + (IF r.Err # NoErr THEN 1 ELSE 0)

\* C5: the LineRead that ReadLine returns has exactly one non-zero member.
C5_TaggedUnion == pc = "returned" => NonZero(lr) = 1

\* C6: history changes only in finishReadLine, and there only by the line of
\* a return-line exit being appended once; an exit with EOF, or any other
\* step, leaves it as it is.
C6_HistoryAppendOnly ==
    [][IF pc = "finish" /\ ev.op = "dispatch" /\ ev.name = "return-line"
       THEN /\ history'.items = Append(history.items, line)
            /\ lr.Line = line
            /\ pc' = "returned"
       ELSE history'.items = history.items]_vars

\* A second line appended after a first one, which is still there.
C6_Witness ==
    /\ pc = "returned"
    /\ ev.op = "finish" /\ ev.lr.Line = "a"
    /\ Len(history.items) = 2
    /\ history.items[2] = "a"

\* C7: a refresh is the last thing before every readKey; a key is read only
\* once the action of the key before it, re-dispatches included, has
\* returned; and from the reading of a key to the end of its dispatch there
\* is no refresh and no other key.
C7_RefreshBeforeReadKey ==
    /\ pc = "readKey" => ev.op = "refresh"
    /\ ev.op \in {"readKey", "readKeyErr"} => ev0.op = "refresh"
    /\ ev.op = "readKey" => pc = "lookupKey"
    /\ pc = "lookupKey" =>
          \/ ev.op = "readKey"
          \/ ev.op = "dispatch" /\ ev.ret.action = "changeModeAndReprocess"
    /\ ev.op = "dispatch" =>
          /\ pc = "lookupKey" => ev.k = k
          /\ ev0.op = "readKey" \/ (ev0.op = "dispatch" /\ ev0.again)
    /\ ev.op = "refresh" =>
          /\ ev0.op \in {"reset", "readKeyErr", "dispatch"}
          /\ ~ev0.again

\* A refresh that follows the action of a key re-dispatched in insert mode.
C7_Witness ==
    /\ pc = "readKey"
    /\ ev.op = "refresh"
    /\ ev0.op = "dispatch"
    /\ line = "a"
    /\ history.items # <<>>

\* -------------------------------------------------------- editorRenderer
\* Bounds of the rendered content.
MaxNoti == 2
MaxLineRows == 3
MaxTips == 2
MaxListing == 2

\* buf.width: every sub-buffer is rendered at the same width.
Width == 2

Min2(a, b) == IF a < b THEN a ELSE b
Max2(a, b) == IF a > b THEN a ELSE b

\* One row of a buffer: the renderer that painted it, its index in that
\* renderer's output, and the columns it fills.
Row(of, i, n) == [of |-> of, row |-> i, len |-> n]

origin == [line |-> 0, col |-> 0]

\* render(linesRenderer{lines, style}, width): one row for each string.
renderLines(of, ss) ==
    [cells |-> [i \in 1..Len(ss) |-> Row(of, i - 1, Min2(Len(ss[i]), Width))],
     dot |-> origin]

\* lines(bufs...): the rows of the buffers that are not nil.
RECURSIVE lines(_)
lines(bufs) ==
    IF bufs = <<>> THEN 0
    ELSE (IF Head(bufs) = nil THEN 0 ELSE Len(Head(bufs).cells)) + lines(Tail(bufs))

\* b.trimToLines(lo, hi): the rows [lo, hi) are kept, the dot moves up by lo
\* and is clipped to the rows that remain.
trimToLines(b, lo, hi) ==
    LET kept == SubSeq(b.cells, Max2(lo, 0) + 1, Min2(hi, Len(b.cells))) IN
    [cells |-> kept,
     dot |-> [b.dot EXCEPT !.line = Clamp(b.dot.line - lo, 0, Max2(Len(kept) - 1, 0))]]

\* b.extend(b2, moveDot): the rows of b2 go below those of b; with moveDot
\* the dot becomes that of b2, moved down by the rows b had.
extend(b, b2, moveDot) ==
    IF b2 = nil \/ b2.cells = <<>> THEN b
    ELSE [cells |-> b.cells \o b2.cells,
          dot |-> IF moveDot
                  THEN [line |-> b2.dot.line + Len(b.cells), col |-> b2.dot.col]
                  ELSE b.dot]

\* The sub-buffers of a render and the height left to the listing.
Bufs(n, l, m, t) ==
    [bufNoti |-> n, bufLine |-> l, bufMode |-> m, bufTips |-> t, hListing |-> 0]

fitsAllListingBelowLine(bs, h) ==
    [bs EXCEPT !.hListing = h - lines(<<bs.bufLine>>)]

\* case height >= lines(bufNoti, bufLine, bufMode, bufTips)
fitsAll(bs, h) ==
    [bs EXCEPT !.hListing = h - lines(<<bs.bufLine, bs.bufMode, bs.bufTips>>)]

dropModeAndTips(bs) == [bs EXCEPT !.bufMode = nil, !.bufTips = nil]

\* case height >= lines(bufNoti, bufLine, bufTips)
dropMode(bs) == [bs EXCEPT !.bufMode = nil]

\* case height >= lines(bufNoti, bufLine)
trimTips(bs, h) ==
    [bs EXCEPT !.bufMode = nil,
               !.bufTips = IF @ # nil
                           THEN trimToLines(@, 0, h - lines(<<bs.bufNoti, bs.bufLine>>))
                           ELSE @]

\* Notifications trimmed from the bottom instead of the top.
trimNotiKeepsFirst(bs, h) ==
    [bs EXCEPT !.bufTips = nil, !.bufMode = nil,
               !.bufNoti = IF @ # nil
                           THEN trimToLines(@, 0, h - lines(<<bs.bufLine>>))
                           ELSE @]

\* case height >= lines(bufLine)
trimNoti(bs, h) ==
    [bs EXCEPT !.bufTips = nil, !.bufMode = nil,
               !.bufNoti = IF @ # nil
                           THEN LET n == Len(@.cells) IN
                                trimToLines(@, n - (h - lines(<<bs.bufLine>>)), n)
                           ELSE @]

\* case height >= 1
trimLine(bs, h) ==
    LET dotLine == bs.bufLine.dot.line IN
    [bs EXCEPT !.bufNoti = nil, !.bufTips = nil, !.bufMode = nil,
               !.bufLine = trimToLines(@, dotLine + 1 - h, dotLine + 1)]

\* default: a broken terminal
dotLineOnly(bs) ==
    LET dotLine == bs.bufLine.dot.line IN
    [bs EXCEPT !.bufNoti = nil, !.bufTips = nil, !.bufMode = nil,
               !.bufLine = trimToLines(@, dotLine, dotLine + 1)]

\* The switch of render: what is trimmed, and hListing.
layout(bs, h) ==
    IF h >= lines(<<bs.bufNoti, bs.bufLine, bs.bufMode, bs.bufTips>>) THEN fitsAll(bs, h)
    ELSE IF h >= lines(<<bs.bufNoti, bs.bufLine, bs.bufTips>>) THEN dropMode(bs)
    ELSE IF h >= lines(<<bs.bufNoti, bs.bufLine>>) THEN trimTips(bs, h)
    ELSE IF h >= lines(<<bs.bufLine>>) THEN trimNoti(bs, h)
    ELSE IF h >= 1 THEN trimLine(bs, h)
    ELSE dotLineOnly(bs)

\* The trimToLines call the switch of render makes, if any: the rows of the
\* buffer trimmed and the range asked for.
trimCalls(bs, h) ==
    LET dotLine == bs.bufLine.dot.line
        Call(b, lo, hi) == {[of |-> b.cells[1].of, rows |-> Len(b.cells), lo |-> lo, hi |-> hi]}
    IN
    IF h >= lines(<<bs.bufNoti, bs.bufLine, bs.bufTips>>) THEN {}
    ELSE IF h >= lines(<<bs.bufNoti, bs.bufLine>>)
         THEN IF bs.bufTips # nil
              THEN Call(bs.bufTips, 0, h - lines(<<bs.bufNoti, bs.bufLine>>)) ELSE {}
    ELSE IF h >= lines(<<bs.bufLine>>)
         THEN IF bs.bufNoti # nil
              THEN LET n == Len(bs.bufNoti.cells) IN
                   Call(bs.bufNoti, n - (h - lines(<<bs.bufLine>>)), n)
              ELSE {}
    ELSE IF h >= 1 THEN Call(bs.bufLine, dotLine + 1 - h, dotLine + 1)
    ELSE Call(bs.bufLine, dotLine, dotLine + 1)

\* lister.List(hListing) rendered: a mode that lists n entries paints as many
\* of them as hListing allows, one to a row; n = 0 is a mode with no list.
renderListing(hListing, n) ==
    IF hListing > 0 /\ n > 0
    THEN [cells |-> [i \in 1..Min2(n, hListing) |-> Row("listing", i - 1, Width)],
          dot |-> origin]
    ELSE nil

combineLineDotUnset(bl, bm, bt, blist, coml) ==
    extend(extend(extend(extend(emptyBuf, bl, FALSE), bm, coml), bt, FALSE), blist, FALSE)

\* buf.cells = nil and the four buf.extend calls.
combine(bl, bm, bt, blist, coml) ==
    extend(extend(extend(extend(emptyBuf, bl, TRUE), bm, coml), bt, FALSE), blist, FALSE)

\* editorRenderer.render: the composed buffer, er.bufNoti and hListing.  The
\* mode line rendered again in completion mode has the rows it had.
editorRender(h, notis, bl, bm, tps, coml, nlist) ==
    LET bs == layout(Bufs(IF Len(notis) > 0 THEN renderLines("noti", notis) ELSE nil,
                          bl, bm,
                          IF Len(tps) > 0 THEN renderLines("tips", tps) ELSE nil), h)
    IN [buf |-> combine(bs.bufLine, bs.bufMode, bs.bufTips,
                        renderListing(bs.hListing, nlist), coml),
        bufNoti |-> bs.bufNoti,
        hListing |-> bs.hListing]

\* The buffers render has before its switch.
renderedBufs(notis, bl, bm, tps) ==
    Bufs(IF Len(notis) > 0 THEN renderLines("noti", notis) ELSE nil, bl, bm,
         IF Len(tps) > 0 THEN renderLines("tips", tps) ELSE nil)

\* n messages, as es.notifications and es.tips hold them.
Msgs(n) == [i \in 1..n |-> "a"]

\* What render(clr, width) may return: one to MaxLineRows rows, the dot at
\* either end of one of them.
CmdLines ==
    {[cells |-> [i \in 1..n |-> Row("line", i - 1, Width)],
      dot |-> [line |-> dl, col |-> dc]] :
        n \in 1..MaxLineRows, dl \in 0..(MaxLineRows - 1), dc \in {0, Width}}

\* What render(es.mode.ModeLine(), width) may return: nothing, or one row
\* with the dot after the filter, at the end of it.
ModeLines ==
    {nil, [cells |-> <<Row("mode", 0, Width)>>, dot |-> [line |-> 0, col |-> Width]]}

\* A mode with no list, or one that lists MaxListing entries.
Listings == {0, MaxListing}

\* The rows of all the content, and the terminal heights tried: from a
\* terminal with no height to one row more than everything needs.
NaturalHeight == MaxNoti + MaxLineRows + 1 + MaxTips + MaxListing
Heights == 0 .. (NaturalHeight + 1)

InitRender ==
    /\ line = ""
    /\ dot = 0
    /\ mode = modeInsert
    /\ completion = nil
    /\ history = [items |-> <<>>, current |-> 0, saved |-> "", prefix |-> ""]
    /\ IdleLoop
    /\ IdleHighlight
    /\ tips \in {Msgs(n) : n \in 0..MaxTips}
    /\ height \in Heights
    /\ notifications \in {Msgs(n) : n \in 0..MaxNoti}
    /\ cmdline \in {b \in CmdLines : b.dot.line < Len(b.cells)}
    /\ modeLine \in ModeLines
    /\ cursorOnModeLine \in {c \in BOOLEAN : c => modeLine # nil}
    /\ listing \in Listings
    /\ buf = emptyBuf
    /\ bufNoti = nil
    /\ ev = NoEvent
    /\ ev0 = NoEvent

\* er.render(buf): the notifications are taken, the buffers are left.
Render ==
    LET r == editorRender(height, notifications, cmdline, modeLine, tips,
                          cursorOnModeLine, listing) IN
    /\ buf' = r.buf
    /\ bufNoti' = r.bufNoti
    /\ notifications' = <<>>
    /\ ev' = [op |-> "render", notifications |-> notifications, hListing |-> r.hListing,
              trims |-> trimCalls(renderedBufs(notifications, cmdline, modeLine, tips),
                                  height)]
    /\ ev0' = ev
    /\ UNCHANGED <<edVars, loopVars, height, cmdline, modeLine, cursorOnModeLine, listing,
                   hlVars>>

NextRender == Render

SpecRender == InitRender /\ [][NextRender]_vars

\* The rows lo .. hi-1 that a renderer paints, each n columns wide.
RowsOf(of, lo, hi, n) == [i \in 1..(hi - lo) |-> Row(of, lo + i - 1, n)]

Rendered == ev.op = "render"

\* The row counts of what the last render was given.
RowsNoti == Len(ev.notifications)
RowsLine == Len(cmdline.cells)
RowsMode == IF modeLine = nil THEN 0 ELSE 1
RowsTips == Len(tips)

\* er.bufNoti holds exactly the notifications lo .. hi-1.
NotiKept(lo, hi) ==
    IF RowsNoti = 0 THEN bufNoti = nil
    ELSE bufNoti # nil /\ bufNoti.cells = RowsOf("noti", lo, hi, 1)

\* C8: the layout follows the six-case height table.  With everything
\* fitting, all rows are kept and the listing gets height minus the rows of
\* line, mode line and tips; else only the mode line goes; else the mode line
\* goes and the first height - lines(noti, line) tips stay; else tips and
\* mode line go and the last height - lines(line) notifications stay; else
\* only rows of the line stay, the dot row among them; on a terminal with no
\* height exactly the dot row stays.  The listing gets no height in the last
\* five cases, and for a height of one or more the composed buffer has at
\* most that many rows.
C8_LayoutTable ==
    Rendered =>
        LET N == RowsNoti
            L == RowsLine
            M == RowsMode
            T == RowsTips
            H == height
            LineRows == RowsOf("line", 0, L, Width)
            ModeRows == RowsOf("mode", 0, M, Width)
        IN
        /\ H >= N + L + M + T =>
              /\ ev.hListing = H - (L + M + T)
              /\ buf.cells = LineRows \o ModeRows \o RowsOf("tips", 0, T, 1)
                                \o RowsOf("listing", 0, Min2(listing, ev.hListing), Width)
              /\ NotiKept(0, N)
        /\ H < N + L + M + T /\ H >= N + L + T =>
              /\ ev.hListing = 0
              /\ buf.cells = LineRows \o RowsOf("tips", 0, T, 1)
              /\ NotiKept(0, N)
        /\ H < N + L + T /\ H >= N + L =>
              /\ ev.hListing = 0
              /\ buf.cells = LineRows \o RowsOf("tips", 0, H - (N + L), 1)
              /\ NotiKept(0, N)
        /\ H < N + L /\ H >= L =>
              /\ ev.hListing = 0
              /\ buf.cells = LineRows
              /\ NotiKept(N - (H - L), N)
        /\ H < L /\ H >= 1 =>
              /\ ev.hListing = 0
              /\ \E lo \in 0..cmdline.dot.line : \E hi \in (cmdline.dot.line + 1)..L :
                    buf.cells = RowsOf("line", lo, hi, Width)
              /\ bufNoti = nil
        /\ H < 1 =>
              /\ ev.hListing = 0
              /\ buf.cells = RowsOf("line", cmdline.dot.line, cmdline.dot.line + 1, Width)
              /\ bufNoti = nil
        /\ H >= 1 => Len(buf.cells) <= H

\* A render that had to drop the mode line and the second of two tips.
C8_Witness ==
    /\ Rendered
    /\ RowsNoti = 1
    /\ RowsMode = 1
    /\ RowsTips = 2
    /\ height = RowsNoti + RowsLine + 1
    /\ Len(buf.cells) = RowsLine + 1
    /\ buf.cells[Len(buf.cells)] = Row("tips", 0, 1)

\* The rows render composes at height h from what the last render was given.
RowsAt(h) ==
    Len(editorRender(h, ev.notifications, cmdline, modeLine, tips,
                     cursorOnModeLine, listing).buf.cells)

\* C9: for the same content a greater height never renders fewer rows, and
\* never more rows than the line, the mode line, the tips and the listing
\* have together.
C9_LayoutMonotone ==
    Rendered =>
        /\ Len(buf.cells) = RowsAt(height)
        /\ \A h \in Heights : h >= height => RowsAt(h) >= Len(buf.cells)
        /\ Len(buf.cells) <= RowsLine + RowsMode + RowsTips + listing

\* A render short of rows where one more row of height shows one more row.
C9_Witness ==
    /\ Rendered
    /\ RowsNoti = 1
    /\ RowsTips = 2
    /\ height = RowsNoti + RowsLine
    /\ RowsAt(height + 1) = Len(buf.cells) + 1
    /\ RowsAt(height + 2 + RowsMode) > RowsAt(height + 1)

\* The dot of the composed buffer is on one of its rows and within it.
DotValid ==
    /\ buf.dot.line \in 0..(Len(buf.cells) - 1)
    /\ buf.dot.col \in 0..buf.cells[buf.dot.line + 1].len

\* The dot of the composed buffer is where b has its dot: same row, same column.
DotOf(b) ==
    /\ buf.cells[buf.dot.line + 1] = b.cells[b.dot.line + 1]
    /\ buf.dot.col = b.dot.col

\* C10 as stated: after a render the dot is valid, and it is the dot of the
\* mode line whenever the mode declares CursorOnModeLine, the dot of the
\* line otherwise.
C10_DotModeLineAlways ==
    Rendered =>
        /\ DotValid
        /\ IF cursorOnModeLine THEN DotOf(modeLine) ELSE DotOf(cmdline)

\* C10: after a render the dot is valid; it is the dot of the mode line when
\* the mode declares CursorOnModeLine and the mode line was kept, which is
\* when everything fits, and in every other case the dot of the line, moved
\* with the rows of the line that were kept.
C10_DotPlacement ==
    Rendered =>
        /\ DotValid
        /\ IF cursorOnModeLine /\ height >= RowsNoti + RowsLine + RowsMode + RowsTips
           THEN DotOf(modeLine) /\ buf.dot.line = RowsLine
           ELSE DotOf(cmdline)

\* The mode wants the cursor on its mode line, but the terminal is too low
\* for the line itself: the dot is on the last line row kept.
C10_Witness ==
    /\ Rendered
    /\ cursorOnModeLine
    /\ RowsLine = 3
    /\ cmdline.dot.line = 2
    /\ height = 2
    /\ buf.dot.line = 1
    /\ buf.cells[2] = Row("line", 2, Width)

\* ------------------------------------------------ the loop, further claims

\* C11: on changeModeAndReprocess the loop sets the mode to newMode and the
\* very next step dispatches the same key through the keymap of newMode, with
\* no refresh and no key read in between; on changeMode it sets the mode and
\* goes to the next iteration; on noAction or nil it leaves the mode as it
\* was and goes to the next iteration; on exitReadLine it leaves the loop
\* with the LineRead of the action.
C11_ActionResults ==
    [][/\ ev'.op = "dispatch" /\ pc' # "nilPanic" =>
             LET a == ev'.ret.action IN
             /\ a = "changeModeAndReprocess" =>
                   mode' = ev'.ret.newMode /\ pc' = "lookupKey" /\ k' = ev'.k
             /\ a = "changeMode" => mode' = ev'.ret.newMode /\ pc' = "refresh"
             /\ a \in {"nil", "noAction"} => mode' = ev'.mode /\ pc' = "refresh"
             /\ a = "exitReadLine" => pc' = "finish" /\ lr' = ev'.ret.readLineReturn
       /\ ev.op = "dispatch" /\ ev.ret.action = "changeModeAndReprocess" =>
             /\ ev'.op = "dispatch"
             /\ ev'.k = ev.k
             /\ ev'.mode = ev.ret.newMode
             /\ ev'.name = lookupName(keyBindings[ev.ret.newMode], ev.k)
      ]_vars

\* A key that completion mode handed on has been inserted by insert mode.
C11_Witness ==
    /\ ev.op = "dispatch"
    /\ ev0.op = "dispatch" /\ ev0.again
    /\ ev.mode = modeInsert
    /\ ev.k = Key("a", NoMod)
    /\ ev.name = "default-insert"
    /\ line = "a"
    /\ pc = "refresh"

\* C12: an error of readKey becomes a tip and nothing else: no action is
\* dispatched, the loop goes on to a refresh that has the message in tips,
\* and ReadLine does not end.  Every refresh that succeeds clears tips before
\* the next key is read, so what a refresh shows was pushed since the
\* refresh before it.
C12_ReadErrorIsTip ==
    [][/\ ev'.op = "readKeyErr" =>
             /\ pc' = "refresh"
             /\ tips' = <<"read error">>
             /\ lr' = lr
             /\ <<line', dot', mode', completion', history'>>
                    = <<line, dot, mode, completion, history>>
       /\ ev.op = "readKeyErr" =>
             /\ pc = "refresh"
             /\ "read error" \in {tips[i] : i \in 1..Len(tips)}
             /\ ev'.op = "refresh"
       /\ ev'.op = "refresh" /\ pc' = "readKey" => tips' = <<>>
       /\ pc = "readKey" => tips = <<>>
      ]_vars

\* A read error in the middle of a line, waiting for its refresh.
C12_Witness ==
    /\ ev.op = "readKeyErr"
    /\ pc = "refresh"
    /\ tips = <<"read error">>
    /\ line = "a"

\* C13: an error of readKey, like an error of refresh, ends the loop: the
\* next thing is finishReadLine, with a LineRead whose Err is set, and no
\* further key is handled.
C13_ErrorsTerminate ==
    /\ ev.op = "readKeyErr" => pc = "finish" /\ lr.Err # NoErr
    /\ ev.op = "refresh" /\ pc # "readKey" => pc = "finish" /\ lr.Err # NoErr

\* C14: at the start of ReadLine the lack-EOL indicator is written exactly
\* when the column the terminal reports is not 1, whatever the row; when the
\* start fails no indicator is written.
C14_LackEOLIffColumn ==
    /\ ev.op = "reset" => (ev.lackEOL <=> ev.cpr.col # 1)
    /\ ev.op = "startFailed" => ~ev.lackEOL

\* ------------------------------------------------------- cmdlineRenderer
\* The history entries a walk goes through.
MaxWalk == 1

\* The prompt painted before the line.
Prompt == ">"

\* What has been painted (the runes written to the buffer, in order) and the
\* buffer's dot as the cursor was when it was set: an offset into the runes.
Painted(out, d) == [out |-> out, dot |-> d]

\* nowAt(i): the completion candidate goes in at compBegin, and the dot is
\* set when i is the editor's dot.
nowAt(clr, i, st) ==
    LET s1 == IF clr.hasComp /\ i = clr.compBegin
              THEN Painted(st.out \o clr.compText, st.dot) ELSE st
    IN IF i = clr.dot THEN Painted(s1.out, Len(s1.out)) ELSE s1

\* for _, r := range clr.line, with i bytes of the line gone through.
RECURSIVE paintLine(_, _, _)
paintLine(clr, i, st) ==
    IF i >= Len(clr.line) THEN st
    ELSE LET r == SubSeq(clr.line, i + 1, i + 1)
             s1 == IF clr.hasComp /\ clr.compBegin <= i /\ i < clr.compEnd
                   THEN st ELSE Painted(st.out \o r, st.dot)
             s2 == nowAt(clr, i + 1, s1)
         IN IF clr.hasHist /\ i + 1 = clr.histBegin THEN s2
            ELSE paintLine(clr, i + 1, s2)

\* cmdlineRenderer.render with no rprompt: the prompt, the line, and in
\* history mode the rest of the history entry with the dot after it.
cmdlineRender(clr) ==
    LET s1 == paintLine(clr, 0, nowAt(clr, 0, Painted(clr.prompt, 0))) IN
    IF clr.hasHist
    THEN Painted(s1.out \o clr.histText, Len(s1.out \o clr.histText))
    ELSE s1

\* newCmdlineRenderer, and setComp or setHist as the mode asks.
newCmdlineRenderer(ed) ==
    LET c == ed.completion
        begin == Len(ed.history.prefix)
        histLine == ed.history.items[ed.history.current + 1]
    IN [prompt |-> Prompt, line |-> ed.line, dot |-> ed.dot,
        hasComp |-> ed.mode = modeCompletion,
        compBegin |-> IF ed.mode = modeCompletion THEN c.start ELSE 0,
        compEnd |-> IF ed.mode = modeCompletion THEN c.end ELSE 0,
        compText |-> IF ed.mode = modeCompletion /\ Selected(c)
                     THEN c.candidates[c.current + 1].text ELSE "",
        hasHist |-> ed.mode = modeHistory,
        histBegin |-> IF ed.mode = modeHistory THEN begin ELSE 0,
        histText |-> IF ed.mode = modeHistory
                     THEN SubSeq(histLine, begin + 1, Len(histLine)) ELSE ""]

InitCmdline ==
    /\ line \in Strs(MaxLine)
    /\ dot \in 0 .. Len(line)
    /\ tips = <<>>
    /\ mode = modeInsert
    /\ completion = nil
    /\ \E items \in SeqsUpTo(Strs(MaxStrLen), MaxWalk) :
          history = [items |-> items, current |-> Len(items), saved |-> "", prefix |-> ""]
    /\ IdleLoop
    /\ IdleRender
    /\ IdleHighlight
    /\ ev = NoEvent
    /\ ev0 = NoEvent

\* The action of key PageUp: start-history in insert mode,
\* select-history-prev in history mode; no key once a tip is up.
HistoryKey ==
    /\ mode \in {modeInsert, modeHistory}
    /\ tips = <<>>
    /\ LET name == lookupName(keyBindings[mode], Key("PageUp", NoMod))
           r == callBuiltin(name, Ed, Key("PageUp", NoMod), NoEnv)
       IN /\ SetEd(IF r.ret.action = "changeMode"
                   THEN [r.ed EXCEPT !.mode = r.ret.newMode] ELSE r.ed)
          /\ ev' = [op |-> "key", name |-> name]
    /\ ev0' = ev
    /\ UNCHANGED <<loopVars, renderVars, hlVars>>

\* bufLine = render(clr, width), as editorRenderer.render asks for it.
RenderCmdline ==
    /\ ev' = [op |-> "renderCmdline", painted |-> cmdlineRender(newCmdlineRenderer(Ed))]
    /\ ev0' = ev
    /\ UNCHANGED <<edVars, loopVars, renderVars, hlVars>>

NextCmdline == HistoryKey \/ RenderCmdline

SpecCmdline == InitCmdline /\ [][NextCmdline]_vars

\* C15: in history mode what is painted after the prompt is the line up to
\* histBegin and then the rest of the history entry, nothing of the line from
\* histBegin on, and the dot is at the end of what was painted.
C15_HistoryPaint ==
    ev.op = "renderCmdline" /\ mode = modeHistory =>
        LET histBegin == Len(history.prefix)
            histLine == history.items[history.current + 1]
            text == Prompt \o SubSeq(line, 1, histBegin)
                        \o SubSeq(histLine, histBegin + 1, Len(histLine))
        IN /\ ev.painted.out = text
           /\ ev.painted.dot = Len(text)

\* C16 as stated: at every height a render puts every pending notification
\* into er.bufNoti and empties the pending list, and a render that follows
\* shows none of them.
C16_EveryNotificationShown ==
    Rendered =>
        /\ notifications = <<>>
        /\ NotiKept(0, RowsNoti)
        /\ ev0.op = "render" => bufNoti = nil

\* C16: a render empties the pending list, and a render that follows shows
\* no notification again.  er.bufNoti holds every pending notification when
\* the height is at least lines(noti, line); below that and down to
\* lines(line) it holds the last height - lines(line) of them, and below
\* lines(line) none: the others are dropped without having been shown.
C16_NotificationsOnceIfRoom ==
    Rendered =>
        /\ notifications = <<>>
        /\ height >= RowsNoti + RowsLine => NotiKept(0, RowsNoti)
        /\ height < RowsNoti + RowsLine /\ height >= RowsLine =>
              NotiKept(RowsNoti - (height - RowsLine), RowsNoti)
        /\ height < RowsLine => bufNoti = nil
        /\ ev0.op = "render" => bufNoti = nil

\* Two notifications and room for one: the second was shown, the first lost.
C16_Witness ==
    /\ Rendered
    /\ RowsNoti = 2
    /\ height = RowsLine + 1
    /\ bufNoti # nil
    /\ bufNoti.cells = <<Row("noti", 1, 1)>>
    /\ notifications = <<>>

\* ----------------------------------------------------------- Highlighter
\* The longest argument list of a form that is not a whole try form.
MaxArgs == 3

\* An argument of a form: its source text, what it is, and the number of
\* its Indexings.
Arg(text, kind) == [text |-> text, kind |-> kind, indexings |-> 1]

Block == Arg("{ }", "block")
Var == Arg("e", "variable")
Kw(name) == Arg(name, "keyword")
ArgKinds == {Block, Var, Kw("except"), Kw("else"), Kw("finally")}

\* The try forms: a body, then the clauses that are there, in order, with
\* the indices (from 0) of the clause keywords and of the except variable.
TryForms ==
    {[args |-> <<Block>> \o ex \o el \o fi,
      keywords |-> (IF ex # <<>> THEN {1} ELSE {})
                     \cup (IF el # <<>> THEN {1 + Len(ex)} ELSE {})
                     \cup (IF fi # <<>> THEN {1 + Len(ex) + Len(el)} ELSE {}),
      variables |-> IF Len(ex) = 3 THEN {2} ELSE {}] :
        ex \in {<<>>, <<Kw("except"), Block>>, <<Kw("except"), Var, Block>>},
        el \in {<<>>, <<Kw("else"), Block>>},
        fi \in {<<>>, <<Kw("finally"), Block>>}}

\* s.addStyling(begin, end, style) for argument i (from 0), and the indices
\* of n.Args read so far.
Styled(st, i, style) == [st EXCEPT !.styling = Append(@, [arg |-> i, style |-> style])]
Read(st, i) == [st EXCEPT !.accessed = @ \cup {i}]

\* highlightKeyword(name) with i as it stands: whether there was an argument.
highlightKeyword(as, name, i, st) ==
    IF i >= Len(as) THEN [ok |-> FALSE, st |-> st]
    ELSE LET a == as[i + 1] IN
         [ok |-> TRUE,
          st |-> IF a.text = name THEN Styled(Read(st, i), i, name) ELSE Read(st, i)]

\* case "try" of Highlighter.highlight.
highlightTry(as) ==
    LET st0 == [styling |-> <<>>, accessed |-> {}]
        i0 == 1
        ex == highlightKeyword(as, "except", i0, st0)
        st1 == IF ex.ok /\ i0 + 1 < Len(as)
               THEN IF as[i0 + 2].indexings > 0
                    THEN Styled(Read(ex.st, i0 + 1), i0 + 1, "variable")
                    ELSE Read(ex.st, i0 + 1)
               ELSE ex.st
        i1 == IF ex.ok THEN i0 + 3 ELSE i0
        el == highlightKeyword(as, "else", i1, st1)
        i2 == IF el.ok THEN i1 + 2 ELSE i1
    IN highlightKeyword(as, "finally", i2, el.st).st

InitHighlight ==
    /\ IdleEditor
    /\ history = [items |-> <<>>, current |-> 0, saved |-> "", prefix |-> ""]
    /\ IdleLoop
    /\ IdleRender
    /\ args \in SeqsUpTo(ArgKinds, MaxArgs) \cup {f.args : f \in TryForms}
    /\ styling = <<>>
    /\ ev = NoEvent
    /\ ev0 = NoEvent

\* highlight(n, ed) on a form whose head is try.
Highlight ==
    /\ ev.op = "none"
    /\ LET r == highlightTry(args) IN
       /\ styling' = r.styling
       /\ ev' = [op |-> "highlight", accessed |-> r.accessed]
    /\ ev0' = ev
    /\ UNCHANGED <<edVars, loopVars, renderVars, args>>

NextHighlight == Highlight

SpecHighlight == InitHighlight /\ [][NextHighlight]_vars

\* The arguments that were given a style.
StyledAs(style) == {styling[j].arg : j \in {j \in 1..Len(styling) : styling[j].style = style}}

\* C17: for a try form with its clauses in order, every clause keyword that
\* is there has its keyword style, the variable of except and nothing else
\* has variable style, and no argument outside 0 .. len(Args)-1 is read.
C17_TryClauses ==
    ev.op = "highlight" =>
        /\ ev.accessed \subseteq 0..(Len(args) - 1)
        /\ \A f \in TryForms : f.args = args =>
              /\ \A i \in f.keywords : i \in StyledAs(args[i + 1].text)
              /\ StyledAs("variable") = f.variables

\* C18: whenever ReadLine has returned, the terminal is as it was before the
\* call, out of raw mode and with autowrap on, or the LineRead returned
\* carries the error of restoring it.
C18_TerminalRestored ==
    pc = "returned" =>
        \/ term = [raw |-> FALSE, autowrap |-> TRUE]
        \/ lr.Err = "can't restore terminal attribute"

\* C19: every trimToLines(lo, hi) that a render calls asks for rows the
\* buffer has: 0 <= lo <= hi <= the number of its rows.
C19_TrimRangeValid ==
    Rendered =>
        \A c \in ev.trims : 0 <= c.lo /\ c.lo <= c.hi /\ c.hi <= c.rows

\* C20: the dot is an offset into the line, 0 <= dot <= len(line), after
\* acceptCompletion called with start <= dot <= end within the line, after
\* acceptHistory, after the reset at the start of ReadLine and after
\* finishReadLine.
C20_DotInLine ==
    \/ ev.op = "dispatch" /\ ev.name \in {"default-completion", "default-history"}
    \/ ev.op \in {"reset", "finish"}
    => 0 <= dot /\ dot <= Len(line)

\* C21: a ReadLine that returns a LineRead with Err set has left history as
\* it was, also when the error is that of restoring the terminal after the
\* loop was left through return-line.
C21_ErrLeavesHistory ==
    [][pc' = "returned" /\ lr'.Err # NoErr => history' = history]_vars

====
